---------------------------- MODULE Spec2Model ----------------------------
(***************************************************************************)
(* A model of the upload pipeline of xdr_ioc_uploader: the retried calls   *)
(* of Uploader (uploader.py), the multi-tenant fan-out of                  *)
(* MultiTenantUploader (multi_tenant_uploader.py) and the single-target    *)
(* upload command (cli.py).  One behaviour is one invocation: Init draws   *)
(* the invocation's inputs, the actions are the steps of the main thread   *)
(* and of the pool's worker threads.                                       *)
(***************************************************************************)
EXTENDS Integers, Sequences, FiniteSets, TLC

VARIABLES
    env,                \* os.environ, once load_dotenv has run
    settings,           \* MultiTenantSettings.tenants (a list of TenantConfig)
    uploaders,          \* MultiTenantUploader.uploaders: name -> Uploader
    command,            \* the operation invoked
    tenant_names,       \* its tenant_names argument (None or a list of names)
    mode,               \* UploadMode
    rows,               \* the loaded rows (each row its number and type)
    batch_size,         \* rows per commit request
    max_workers,        \* size of the worker pool
    main,               \* where the main thread is
    phase,              \* which per-target tasks the pool holds
    targets,            \* the tenants the operation works on
    tasks,              \* one future per target of the current pool
    results,            \* the results list of the running as_completed loop
    returned,           \* what the operation returned to its caller
    raised,             \* the exception that left the operation, if any
    exit_code,          \* exit code of the upload command (-1 while it runs)
    artifact,           \* action of the run artifact the upload command wrote
    sent,               \* per target: the requests sent, by validate flag, the
                        \* batches of its commit calls and the rows acknowledged
    val_outcome,        \* per target: how its validate call ended
    task_raised,        \* targets whose task of the current pool raised
    last_call,          \* the retried call that ended in the last step, if one did
    now,                \* the clock (time.monotonic / the wall clock), in ticks
    buckets,            \* Uploader.bucket of every uploader: tokens, timestamp
    threads,            \* the threads that call consume on their target's bucket
    client,             \* the Settings of an XdrApiClient
    call,               \* a retried call on that client
    draws,              \* how many nonces the client has drawn
    wire                \* the headers of the requests the client has sent

vars == << env, settings, uploaders, command, tenant_names, mode, rows, batch_size,
           max_workers, main, phase, targets, tasks, results, returned,
           raised, exit_code, artifact, sent, val_outcome, task_raised,
           last_call, now, buckets, threads, client, call, draws, wire >>

(* The state of the limiter and of the client, which the operations above  *)
(* them are modelled without.                                              *)
apart == << now, buckets, threads, client, call, draws, wire >>

(* The state of the operations.                                            *)
core == << env, settings, uploaders, command, tenant_names, mode, rows, batch_size,
           max_workers, main, phase, targets, tasks, results, returned,
           raised, exit_code, artifact, sent, val_outcome, task_raised,
           last_call >>

inputs == << env, settings, uploaders, command, tenant_names, mode, rows,
             batch_size, max_workers >>

-----------------------------------------------------------------------------
(* Bounds of the model.                                                    *)

MaxTenants == 3
MaxUploadTenants == 2
MaxRows == 2
MaxBatch == 2
MaxWorkers == 2
MaxCommitRows == 5
MaxCapacity == 2
MaxConsume == 2
MaxCalls == 2
MaxTime == 4
MaxWaitIndex == 8

(* The scale of the limiter: tokens are counted in units of 1/Resolution   *)
(* token, and Rate units are refilled per tick of the clock.               *)
Resolution == 2
Rate == 1

(* Program constants.                                                      *)

MaxAttempts == 5
NonceLength == 64

-----------------------------------------------------------------------------
(* Values.                                                                 *)

None == "<None>"

TenantNames == << "A", "B", "C", "D", "E" >>
Hosts == << "h1", "h2", "h3", "h4", "h5" >>

KeyIds == << "id1", "id2", "id3", "id4", "id5" >>
Keys == << "k1", "k2", "k3", "k4", "k5" >>

TenantConfig(k) ==
    [ name |-> TenantNames[k], fqdn |-> Hosts[k], api_key_id |-> KeyIds[k],
      api_key |-> Keys[k] ]

(* The Settings made of a TenantConfig (multi_tenant_uploader.py, lines    *)
(* 70-76 and 253-258).                                                     *)
Settings(t) ==
    [ fqdn |-> t.fqdn, api_key_id |-> t.api_key_id, api_key |-> t.api_key ]

UploadMode == { "csv", "json" }

(* An exception: its class, the status of its response (0: no response),   *)
(* and the attempt of the call that raised it (what tells two exception    *)
(* objects of the same class apart).                                       *)
Exc(kind, status, seq) == [ kind |-> kind, status |-> status, seq |-> seq ]

NoExc == Exc("none", 0, 0)

HTTPError(status) == Exc("HTTPError", status, 0)
ConnectionError == Exc("ConnectionError", 0, 0)
Timeout == Exc("Timeout", 0, 0)
ValueError == Exc("ValueError", 0, 0)
RetryError == Exc("RetryError", 0, 0)
RuntimeError == Exc("RuntimeError", 0, 0)
AttributeError == Exc("AttributeError", 0, 0)
TypeError == Exc("TypeError", 0, 0)

(* The environment variables get_settings requires, and the values they    *)
(* are given here: unset or empty, blank, set.                             *)
Required == { "XDR_FQDN", "XDR_API_KEY_ID", "XDR_API_KEY" }

Environments == [ Required -> { "", " ", "x" } ]

FullEnv == [ name \in Required |-> "x" ]

(* A decoded response body: the keys the code reads.  A key that is absent *)
(* reads like an empty list, a missing "reply" like a false one.           *)
Bodies ==
    [ reply : BOOLEAN,
      errors : { << >>, << "e1" >> },
      validation_errors : { << >>, << "v1" >> } ]


(* Text is a sequence of symbols, a symbol a pair of a name and a number.  *)
Sym(name, k) == << name, k >>

Word(name) == << Sym(name, 0) >>

(* A header value: a text as it is, or the hex digest of a text.           *)
Text(t) == [ kind |-> "text", of |-> t ]

Sha256Hex(t) == [ kind |-> "sha256hex", of |-> t ]

(* The d-th nonce drawn from secrets.choice: 64 symbols no other draw      *)
(* gives.                                                                  *)
Nonce(d) == [ j \in 1..NonceLength |-> Sym("nonce", d) ]

(* str(int(datetime.now(timezone.utc).timestamp() * 1000)) at time t.       *)
Timestamp(t) == << Sym("ms", t) >>

ClientSettings ==
    [ api_key : { Word("k") }, api_key_id : { Word("id") },
      advanced : BOOLEAN ]

-----------------------------------------------------------------------------
(* Pure functions of the program.                                          *)

(* api_client.py _standard_headers.                                        *)
StandardHeaders(s) ==
    ( "Authorization" :> Text(s.api_key) ) @@
    ( "x-xdr-auth-id" :> Text(s.api_key_id) ) @@
    ( "Content-Type" :> Text(Word("application/json")) )

(* A signature over the key, the timestamp and the nonce, in that order.   *)
AdvancedHeadersSwapped(s, nonce, timestamp) ==
    ( "Authorization" :> Sha256Hex(s.api_key \o timestamp \o nonce) ) @@
    ( "x-xdr-auth-id" :> Text(s.api_key_id) ) @@
    ( "x-xdr-timestamp" :> Text(timestamp) ) @@
    ( "x-xdr-nonce" :> Text(nonce) ) @@
    ( "Content-Type" :> Text(Word("application/json")) )

(* api_client.py _advanced_headers, given the nonce and timestamp it drew. *)
AdvancedHeaders(s, nonce, timestamp) ==
    ( "Authorization" :> Sha256Hex(s.api_key \o nonce \o timestamp) ) @@
    ( "x-xdr-auth-id" :> Text(s.api_key_id) ) @@
    ( "x-xdr-timestamp" :> Text(timestamp) ) @@
    ( "x-xdr-nonce" :> Text(nonce) ) @@
    ( "Content-Type" :> Text(Word("application/json")) )

(* api_client.py _headers.                                                 *)
Headers(s, nonce, timestamp) ==
    IF s.advanced THEN AdvancedHeaders(s, nonce, timestamp)
    ELSE StandardHeaders(s)

(* Headers computed once and kept for the later requests.                  *)
RequestHeadersCached(before, computed) ==
    IF before = << >> THEN computed ELSE before[Len(before)].headers

(* _post, line 54: session.post(url, headers=self._headers(), ...): the    *)
(* request carries the headers just computed, whatever was sent before.    *)
RequestHeaders(before, computed) == computed

(* str.strip, on the values above.                                         *)
Strip(v) == IF v = " " THEN "" ELSE v

(* A test of the host name alone.                                          *)
GetSettingsRaisesHostOnly(e) == Strip(e["XDR_FQDN"]) = ""

(* config.py get_settings, line 40: RuntimeError unless the three required *)
(* variables are non-empty once stripped.                                  *)
GetSettingsRaises(e) ==
    \/ Strip(e["XDR_FQDN"]) = ""
    \/ Strip(e["XDR_API_KEY_ID"]) = ""
    \/ Strip(e["XDR_API_KEY"]) = ""

(* The methods of MultiTenantUploader and the parameters they take, self   *)
(* aside.                                                                  *)
Parameters ==
    [ _validate_all |-> { "rows", "mode", "tenants" },
      upload_all |-> { "rows", "mode", "batch_size", "tenant_names" },
      test_auth_all |-> { "tenant_names" },
      _validate_tenant |-> { "tenant", "rows", "mode" },
      _upload_tenant |-> { "tenant", "rows", "mode", "batch_size" },
      _test_auth_tenant |-> { "tenant" },
      _build_multi_tenant_result |-> { "results", "total_rows" },
      print_summary |-> { "result" } ]

(* The call the multi-tenant command makes on the uploader: cli.py line    *)
(* 842 in validate_multi, line 912 in upload_multi.                        *)
CliCall(cmd) ==
    IF cmd = "validate_multi"
    THEN [ method |-> "validate_all", keywords |-> { } ]
    ELSE [ method |-> "upload_all", keywords |-> { "validate_first" } ]

(* What Python raises at a call uploader.method(..., keyword=...): an      *)
(* AttributeError for a method the object has not, a TypeError for a       *)
(* keyword the method does not take.                                       *)
CallError(c) ==
    IF c.method \notin DOMAIN Parameters THEN AttributeError
    ELSE IF ~(c.keywords \subseteq Parameters[c.method]) THEN TypeError
    ELSE NoExc

(* load_from_json / load_from_environment raise on an empty tenant list.   *)
LoadRaises(ts) == ts = << >>

(* _should_retry without the 429 case.                                     *)
ShouldRetryServerOnly(exc) ==
    IF exc.kind = "HTTPError" /\ exc.status # 0
    THEN 500 <= exc.status /\ exc.status < 600
    ELSE FALSE

(* uploader.py _should_retry: an HTTPError that carries a response (every  *)
(* HTTPError of raise_for_status does) with status 429 or 5xx.             *)
ShouldRetry(exc) ==
    IF exc.kind = "HTTPError" /\ exc.status # 0
    THEN exc.status = 429 \/ (500 <= exc.status /\ exc.status < 600)
    ELSE FALSE

(* A stop condition that lets a sixth attempt through.                     *)
StopAfterAttemptLate(n) == n > MaxAttempts

(* stop_after_attempt(5): no further attempt after the n-th.               *)
StopAfterAttempt(n) == n >= MaxAttempts

(* tenacity without reraise=True: a RetryError wraps the last attempt.     *)
ReraiseWrapped(exc) == RetryError

(* reraise=True: on giving up, the exception of the last attempt itself.   *)
Reraise(exc) == exc

(* str(e), per exception class: the text requests gives an HTTPError       *)
(* ("<status> Client Error ..." / "<status> Server Error ..."), the text   *)
(* of build_json_objects' ValueError, the text of a connectivity error.    *)
ExcText(exc) ==
    CASE exc.kind = "HTTPError" ->
            IF exc.status < 500 THEN "Client Error" ELSE "Server Error"
      [] exc.kind = "ValueError" -> "Type PATH is not supported in JSON mode"
      [] exc.kind = "ConnectionError" -> "Connection refused"
      [] exc.kind = "Timeout" -> "Read timed out"
      [] exc.kind = "RetryError" -> "RetryError"

(* transformers.py build_json_objects raises ValueError on a PATH row;     *)
(* build_csv_request_data accepts every row.                               *)
BuildJsonRaises(rs) == \E k \in 1..Len(rs) : rs[k].type = "PATH"

(* A batch count that drops a last batch smaller than size.                *)
NumChunksFloor(rs, size) == Len(rs) \div size

(* uploader.py _chunks: seq[i : i + size] for i in range(0, len, size).    *)
NumChunks(rs, size) == (Len(rs) + size - 1) \div size

Min(a, b) == IF a <= b THEN a ELSE b

Chunk(rs, size, k) ==
    SubSeq(rs, (k - 1) * size + 1, Min(k * size, Len(rs)))

(* The backend's reply to a validate request lists rejected rows, under    *)
(* either of its two keys.                                                 *)
Reports(body) == body.errors # << >> \/ body.validation_errors # << >>

(* Only the first key read.                                                *)
ErrorsOfFirstKey(body) == body.errors

(* x.get("errors") or x.get("validation_errors") or []                     *)
ErrorsOf(body) ==
    IF body.errors # << >> THEN body.errors ELSE body.validation_errors

(* MultiTenantSettings.get_tenant: the first tenant with that name.        *)
HasTenant(ts, name) == \E k \in 1..Len(ts) : ts[k].name = name

GetTenant(ts, name) ==
    ts[CHOOSE k \in 1..Len(ts) :
          /\ ts[k].name = name
          /\ \A j \in 1..(k - 1) : ts[j].name # name]

(* MultiTenantSettings.get_tenants: all tenants for None, else the named   *)
(* ones in the order asked; ValueError on a name that is not configured.   *)
GetTenantsRaises(ts, names) ==
    /\ names.given
    /\ \E k \in 1..Len(names.list) : ~HasTenant(ts, names.list[k])

GetTenants(ts, names) ==
    IF ~names.given THEN ts
    ELSE [ k \in 1..Len(names.list) |-> GetTenant(ts, names.list[k]) ]

(* MultiTenantUploader.__init__: one Uploader per tenant name, a later     *)
(* tenant of the same name replacing the earlier one's.                    *)
LastNamed(ts, name) ==
    CHOOSE k \in 1..Len(ts) :
        /\ ts[k].name = name
        /\ \A j \in (k + 1)..Len(ts) : ts[j].name # name

MakeUploaders(ts) ==
    [ name \in { ts[k].name : k \in 1..Len(ts) } |->
        [ settings |-> Settings(ts[LastNamed(ts, name)]) ] ]

(* TenantUploadResult, with its defaults.                                  *)
TenantUploadResult(name, success, total, succeeded, failed, errors, verrors, msg) ==
    [ tenant_name |-> name, success |-> success, total_rows |-> total,
      succeeded |-> succeeded, failed |-> failed, errors |-> errors,
      validation_errors |-> verrors, error_message |-> msg ]

(* _validate_tenant, lines 199-207: the result for a validate reply.       *)
ValidateResult(tenant, rs, body) ==
    TenantUploadResult(tenant.name, Len(ErrorsOf(body)) = 0, Len(rs), 0, 0,
                       << >>, ErrorsOf(body), None)

(* _upload_tenant, lines 228-239: the result for commit's counts.          *)
UploadResult(tenant, rs, succeeded, failed, errors) ==
    TenantUploadResult(tenant.name, failed = 0, Len(rs), succeeded, failed,
                       errors, << >>, None)

(* A probe that reports failure whatever the answer.                       *)
AuthResultFailed(tenant) ==
    TenantUploadResult(tenant.name, FALSE, 0, 0, 0, << >>, << >>, None)

(* _test_auth_tenant, lines 262-266.                                       *)
AuthResult(tenant) ==
    TenantUploadResult(tenant.name, TRUE, 0, 0, 0, << >>, << >>, None)

(* An except branch that drops the text of the exception.                  *)
FailureResultNoText(tenant, total, exc) ==
    TenantUploadResult(tenant.name, FALSE, total, 0, 0, << >>, << >>, None)

(* The except branches of the three per-tenant tasks.                      *)
FailureResult(tenant, total, exc) ==
    TenantUploadResult(tenant.name, FALSE, total, 0, 0, << >>, << >>,
                       ExcText(exc))

(* _build_multi_tenant_result.                                             *)
RECURSIVE CountSuccess(_)
CountSuccess(rs) ==
    IF rs = << >> THEN 0
    ELSE (IF Head(rs).success THEN 1 ELSE 0) + CountSuccess(Tail(rs))

BuildMultiTenantResult(rs, total_rows) ==
    [ tenant_results |-> rs,
      total_tenants |-> Len(rs),
      successful_tenants |-> CountSuccess(rs),
      failed_tenants |-> Len(rs) - CountSuccess(rs),
      total_rows |-> total_rows ]

(* overall_success as "some tenant succeeded".                             *)
OverallSuccessAny(agg) == agg.successful_tenants > 0

(* partial_success without the test on failed_tenants.                     *)
PartialSuccessLoose(agg) == agg.successful_tenants > 0

(* MultiTenantUploadResult.overall_success / partial_success.              *)
OverallSuccess(agg) == agg.failed_tenants = 0

PartialSuccess(agg) == agg.successful_tenants > 0 /\ agg.failed_tenants > 0

-----------------------------------------------------------------------------
(* The state after construction.                                           *)

NoNames == [ given |-> FALSE, list |-> << >> ]

Named(names) == [ given |-> TRUE, list |-> names ]

(* The Settings of the single-target upload command (config.py).           *)
SingleTarget ==
    [ name |-> "default", fqdn |-> "h0", api_key_id |-> "id0",
      api_key |-> "k0" ]

Commands == { "validate_all", "upload_all", "test_auth_all", "upload" }

CliCommands == { "validate_multi", "upload_multi" }

(* A future of the pool and the retried call its thread is in: attempt is  *)
(* tenacity's attempt number, outcome the exception of the last attempt,   *)
(* waits the backoff sleeps so far, hist the answers the attempts got.     *)
NewTask ==
    [ pc |-> "queued", batch |-> 0, attempt |-> 0, outcome |-> NoExc,
      waits |-> << >>, hist |-> << >>,
      succeeded |-> 0, failed |-> 0, errors |-> << >> ]

NoCall ==
    [ validate |-> FALSE, ended |-> "none", attempts |-> 0,
      outcome |-> NoExc, caught |-> NoExc, waits |-> << >>, hist |-> << >> ]

NoRequests ==
    [ validate |-> FALSE, commit |-> FALSE, calls |-> << >>, acked |-> 0,
      answered |-> 0, last |-> << >>, via |-> { } ]

InitRun ==
    /\ uploaders = MakeUploaders(settings)
    /\ main = "start"
    /\ phase = "none"
    /\ targets = << >>
    /\ tasks = << >>
    /\ results = << >>
    /\ returned = << >>
    /\ raised = NoExc
    /\ exit_code = -1
    /\ artifact = "none"
    /\ sent = << >>
    /\ val_outcome = << >>
    /\ task_raised = { }
    /\ last_call = NoCall

(* The limiter and the client at rest.                                     *)
InitApart ==
    /\ now = 0
    /\ buckets = << >>
    /\ threads = << >>
    /\ client = << >>
    /\ call = << >>
    /\ draws = 0
    /\ wire = << >>

(* The datasets: n rows, the last one of type PATH when path is set.       *)
Dataset(n, path) ==
    [ k \in 1..n |->
        [ id |-> k, type |-> IF path /\ k = n THEN "PATH" ELSE "IP" ] ]

Datasets == { Dataset(n, path) : n \in 0..MaxRows, path \in BOOLEAN }

(* The inputs an operation does not read are fixed.                        *)
InputsRead ==
    /\ command = "test_auth_all" =>
          rows = << >> /\ mode = "csv" /\ batch_size = 1
    /\ command = "validate_all" => batch_size = 1
    /\ command = "upload" =>
          Len(settings) = 1 /\ tenant_names = NoNames /\ max_workers = 1
    /\ command # "upload" => env = FullEnv
    /\ mode = "csv" => ~BuildJsonRaises(rows)

(* upload_all, the longest operation, is run on fewer tenants.             *)
UploadBounded == command = "upload_all" => Len(settings) <= MaxUploadTenants

Init ==
    /\ env \in Environments
    /\ settings \in { [ k \in 1..n |-> TenantConfig(k) ] : n \in 1..MaxTenants }
    /\ command \in Commands
    /\ tenant_names \in { NoNames, Named(<< "B" >>), Named(<< "Z" >>) }
    /\ mode \in UploadMode
    /\ rows \in Datasets
    /\ batch_size \in 1..MaxBatch
    /\ max_workers \in 1..MaxWorkers
    /\ InputsRead
    /\ UploadBounded
    /\ InitRun
    /\ InitApart

(* The upload command on a dataset of one batch.                           *)
InitRetry ==
    /\ env = FullEnv
    /\ settings = << TenantConfig(1) >>
    /\ command = "upload"
    /\ tenant_names = NoNames
    /\ mode \in UploadMode
    /\ rows = Dataset(1, FALSE)
    /\ batch_size = 1
    /\ max_workers = 1
    /\ InitRun
    /\ InitApart

(* An upload to one tenant, by the command or by upload_all, of a dataset  *)
(* of several batches.                                                     *)
InitCommit ==
    /\ env = FullEnv
    /\ settings = << TenantConfig(1) >>
    /\ command \in { "upload", "upload_all" }
    /\ tenant_names = NoNames
    /\ mode \in UploadMode
    /\ rows \in { Dataset(n, FALSE) : n \in 0..MaxCommitRows }
    /\ batch_size \in 1..MaxBatch
    /\ max_workers = 1
    /\ InitRun
    /\ InitApart

(* TokenBucket.__init__: a full bucket, stamped with the current time.     *)
NewTokenBucket(capacity) ==
    [ capacity |-> capacity * Resolution, tokens |-> capacity * Resolution,
      timestamp |-> 0 ]

(* One bucket per Uploader, hence per key of MultiTenantUploader.uploaders. *)
MakeBuckets(ups, capacity) ==
    [ name \in DOMAIN ups |-> NewTokenBucket(capacity) ]

(* A thread: its consume call and, when validate_csv / commit_csv made     *)
(* it, the retried call that follows, with the requests the thread sent.   *)
NewThread ==
    [ pc |-> "idle", n |-> 0, calls |-> 0, waited |-> FALSE, seen_at |-> 0,
      short |-> 0, returned_at |-> 0, taken |-> 0,
      caller |-> "consume", attempt |-> 0, requests |-> 0, ended |-> "none" ]

(* The lists of two tenant entries, the second named like the first or     *)
(* not: load_from_json and load_from_environment accept both.              *)
TwoEntries ==
    { << TenantConfig(1), [ TenantConfig(2) EXCEPT !.name = TenantNames[k] ] >> :
        k \in 1..2 }

(* Two tenant entries, of the same name or not, whose tasks call consume   *)
(* on the buckets of their uploaders.                                      *)
InitBucket ==
    /\ env = FullEnv
    /\ settings \in TwoEntries
    /\ command = "upload_all"
    /\ tenant_names = NoNames
    /\ mode = "csv"
    /\ rows = << >>
    /\ batch_size = 1
    /\ max_workers = 2
    /\ InitRun
    /\ now = 0
    /\ \E capacity \in 1..MaxCapacity :
          buckets = MakeBuckets(uploaders, capacity)
    /\ threads = [ i \in 1..Len(settings) |-> NewThread ]
    /\ client = << >>
    /\ call = << >>
    /\ draws = 0
    /\ wire = << >>

(* The operations on two tenant entries, of the same name or not.          *)
InitTenants ==
    /\ env = FullEnv
    /\ settings \in TwoEntries
    /\ command \in Commands
    /\ tenant_names = NoNames
    /\ mode = "csv"
    /\ rows = Dataset(1, FALSE)
    /\ batch_size = 1
    /\ max_workers \in 1..MaxWorkers
    /\ InitRun
    /\ InitApart

(* The multi-tenant commands of the command line, on a configuration of    *)
(* no, one or several tenants.                                             *)
InitCli ==
    /\ env = FullEnv
    /\ settings \in { [ k \in 1..n |-> TenantConfig(k) ] : n \in 0..MaxTenants }
    /\ command \in CliCommands
    /\ tenant_names \in { NoNames, Named(<< "B" >>), Named(<< "Z" >>) }
    /\ mode \in UploadMode
    /\ rows \in Datasets
    /\ batch_size \in 1..MaxBatch
    /\ max_workers \in 1..MaxWorkers
    /\ mode = "csv" => ~BuildJsonRaises(rows)
    /\ InitRun
    /\ InitApart

(* One target whose task makes uploader calls: the bucket, then the        *)
(* retried call.                                                           *)
InitThrottle ==
    /\ env = FullEnv
    /\ settings = << TenantConfig(1) >>
    /\ command = "upload_all"
    /\ tenant_names = NoNames
    /\ mode = "csv"
    /\ rows = << >>
    /\ batch_size = 1
    /\ max_workers = 1
    /\ InitRun
    /\ now = 0
    /\ \E capacity \in 1..MaxCapacity :
          buckets = MakeBuckets(uploaders, capacity)
    /\ threads = << NewThread >>
    /\ client = << >>
    /\ call = << >>
    /\ draws = 0
    /\ wire = << >>

NewCall == [ pc |-> "idle", attempt |-> 0, calls |-> 0, ended |-> "none" ]

(* One XdrApiClient, in either authentication mode, and the retried calls  *)
(* made on it.                                                             *)
InitClient ==
    /\ env = FullEnv
    /\ settings = << TenantConfig(1) >>
    /\ command = "upload"
    /\ tenant_names = NoNames
    /\ mode = "csv"
    /\ rows = << >>
    /\ batch_size = 1
    /\ max_workers = 1
    /\ InitRun
    /\ now = 0
    /\ buckets = << >>
    /\ threads = << >>
    /\ client \in ClientSettings
    /\ call = NewCall
    /\ draws = 0
    /\ wire = << >>

-----------------------------------------------------------------------------
(* The main thread of the multi-tenant operations.                         *)

(* executor.submit for every tenant: one queued future each.               *)
Submit(ts, ph) ==
    /\ targets' = ts
    /\ phase' = ph
    /\ tasks' = [ i \in 1..Len(ts) |-> NewTask ]
    /\ results' = << >>
    /\ task_raised' = { }

AllDone == \A i \in 1..Len(tasks) : tasks[i].pc = "done"

(* A loop left at the first completed future.                              *)
JoinedFirst == \E i \in 1..Len(tasks) : tasks[i].pc = "done"

(* The as_completed loop has consumed every future and the with block of   *)
(* the executor has been left.                                             *)
Joined == AllDone

(* _validate_all called with the tenants its caller got from get_tenants   *)
(* (lines 79-100): one _validate_tenant task per tenant is submitted.      *)
ValidateAllCall ==
    /\ main = "start"
    /\ command = "validate_all"
    /\ ~GetTenantsRaises(settings, tenant_names)
    /\ main' = "validate_all"
    /\ Submit(GetTenants(settings, tenant_names), "validate")
    /\ sent' = [ i \in 1..Len(targets') |-> NoRequests ]
    /\ val_outcome' = [ i \in 1..Len(targets') |-> "pending" ]
    /\ last_call' = NoCall
    /\ UNCHANGED << apart, inputs, returned, raised, exit_code, artifact >>

(* _validate_all returns (lines 101-109).                                  *)
ValidateAllReturn ==
    /\ main = "validate_all"
    /\ command = "validate_all"
    /\ Joined
    /\ returned' = << BuildMultiTenantResult(results, Len(rows)) >>
    /\ main' = "returned"
    /\ last_call' = NoCall
    /\ UNCHANGED << apart, inputs, phase, targets, tasks, results, raised,
                    exit_code, artifact, sent, val_outcome, task_raised >>

(* upload_all, lines 119-122: get_tenants, then _validate_all.             *)
UploadAllCall ==
    /\ main = "start"
    /\ command = "upload_all"
    /\ IF GetTenantsRaises(settings, tenant_names)
       THEN /\ main' = "raised"
            /\ raised' = ValueError
            /\ UNCHANGED << targets, phase, tasks, results, sent, val_outcome,
                            task_raised >>
       ELSE /\ main' = "validate_all"
            /\ Submit(GetTenants(settings, tenant_names), "validate")
            /\ sent' = [ i \in 1..Len(targets') |-> NoRequests ]
            /\ val_outcome' = [ i \in 1..Len(targets') |-> "pending" ]
            /\ UNCHANGED raised
    /\ last_call' = NoCall
    /\ UNCHANGED << apart, inputs, returned, exit_code, artifact >>

(* upload_all, lines 122-126: _validate_all has returned a result that is  *)
(* not overall_success; it is returned as it is.                           *)
UploadAllAbort ==
    /\ main = "validate_all"
    /\ command = "upload_all"
    /\ Joined
    /\ LET validated == BuildMultiTenantResult(results, Len(rows))
       IN  /\ ~OverallSuccess(validated)
           /\ returned' = << validated >>
    /\ main' = "returned"
    /\ last_call' = NoCall
    /\ UNCHANGED << apart, inputs, phase, targets, tasks, results, raised,
                    exit_code, artifact, sent, val_outcome, task_raised >>

(* upload_all, lines 122-143: validation passed, one _upload_tenant task   *)
(* per tenant is submitted.                                                *)
UploadAllCommit ==
    /\ main = "validate_all"
    /\ command = "upload_all"
    /\ Joined
    /\ LET validated == BuildMultiTenantResult(results, Len(rows))
       IN  /\ OverallSuccess(validated)
    /\ main' = "commit_all"
    /\ Submit(targets, "commit")
    /\ last_call' = NoCall
    /\ UNCHANGED << apart, inputs, returned, raised, exit_code, artifact, sent,
                    val_outcome >>

(* upload_all, lines 145-156.                                              *)
UploadAllReturn ==
    /\ main = "commit_all"
    /\ Joined
    /\ returned' = << BuildMultiTenantResult(results, Len(rows)) >>
    /\ main' = "returned"
    /\ last_call' = NoCall
    /\ UNCHANGED << apart, inputs, phase, targets, tasks, results, raised,
                    exit_code, artifact, sent, val_outcome, task_raised >>

(* test_auth_all, lines 158-175.                                           *)
TestAuthAllCall ==
    /\ main = "start"
    /\ command = "test_auth_all"
    /\ IF GetTenantsRaises(settings, tenant_names)
       THEN /\ main' = "raised"
            /\ raised' = ValueError
            /\ UNCHANGED << targets, phase, tasks, results, sent, val_outcome,
                            task_raised >>
       ELSE /\ main' = "test_auth_all"
            /\ Submit(GetTenants(settings, tenant_names), "auth")
            /\ sent' = [ i \in 1..Len(targets') |-> NoRequests ]
            /\ val_outcome' = [ i \in 1..Len(targets') |-> "pending" ]
            /\ UNCHANGED raised
    /\ last_call' = NoCall
    /\ UNCHANGED << apart, inputs, returned, exit_code, artifact >>

(* test_auth_all, lines 177-184.                                           *)
TestAuthAllReturn ==
    /\ main = "test_auth_all"
    /\ Joined
    /\ returned' = << BuildMultiTenantResult(results, 0) >>
    /\ main' = "returned"
    /\ last_call' = NoCall
    /\ UNCHANGED << apart, inputs, phase, targets, tasks, results, raised,
                    exit_code, artifact, sent, val_outcome, task_raised >>

-----------------------------------------------------------------------------
(* The retried calls of Uploader, as the thread that makes them runs them. *)

RECURSIVE Pow2(_)
Pow2(n) == IF n = 0 THEN 1 ELSE 2 * Pow2(n - 1)

Max(a, b) == IF a >= b THEN a ELSE b

(* A backoff that starts at two seconds.                                   *)
WaitExponentialEarly(n) == Max(1, Min(1 * Pow2(n), 30))

(* wait_exponential(multiplier=1, min=1, max=30) after the n-th attempt.   *)
WaitExponential(n) == Max(1, Min(1 * Pow2(n - 1), 30))

(* How an attempt was answered, for the history of a call.                 *)
HistClass(exc) ==
    CASE exc.kind = "HTTPError" /\ exc.status = 429 -> "429"
      [] exc.kind = "HTTPError" /\ exc.status = 404 -> "404"
      [] exc.kind = "HTTPError" /\ exc.status < 500 -> "4xx"
      [] exc.kind = "HTTPError" -> "5xx"
      [] OTHER -> "net"

Flag == IF phase = "commit" THEN "commit" ELSE "validate"

(* The Settings of the client that sends the requests of target i's task:  *)
(* those of self.uploaders[tenant.name] in _validate_tenant and            *)
(* _upload_tenant, those made of the tenant itself in _test_auth_tenant,   *)
(* those of get_settings in the upload command.                            *)
ClientOf(i) ==
    IF phase = "auth" \/ command = "upload" THEN Settings(targets[i])
    ELSE uploaders[targets[i].name].settings

(* What target i was sent once session.post has sent the request of the    *)
(* attempt its task is in: the first attempt of a commit call carries a    *)
(* new batch.  The request goes to the host of the client's Settings and   *)
(* is signed with their key.                                               *)
Requested(i) ==
    IF phase = "commit" /\ tasks[i].attempt = 0
    THEN [ sent[i] EXCEPT
             ![Flag] = TRUE,
             !.via = @ \cup { ClientOf(i) },
             !.calls = Append(@, Chunk(rows, batch_size, tasks[i].batch)) ]
    ELSE [ sent[i] EXCEPT ![Flag] = TRUE, !.via = @ \cup { ClientOf(i) } ]

RequestSent(i) == sent' = [ sent EXCEPT ![i] = Requested(i) ]

(* The request was sent and the backend answered it with body: a reply     *)
(* that is true acknowledges the rows of the batch.  The body of the last  *)
(* commit call answered is kept.                                           *)
Replied(i, body) ==
    sent' = [ sent EXCEPT ![i] =
                [ Requested(i) EXCEPT
                    !.acked = IF body.reply = TRUE
                              THEN @ + Len(Chunk(rows, batch_size,
                                                 tasks[i].batch))
                              ELSE @,
                    !.answered = @ + 1,
                    !.last = << body >> ] ]

DoneTask == [ NewTask EXCEPT !.pc = "done" ]

(* The task's function returns res: the future completes and the           *)
(* as_completed loop appends its result.                                   *)
Finish(i, res) ==
    /\ tasks' = [ tasks EXCEPT ![i] = DoneTask ]
    /\ results' = Append(results, res)
    /\ UNCHANGED task_raised

(* The task's function raises exc: the except branch of the task returns   *)
(* the failure result, which the as_completed loop appends.                *)
Caught(i, total, exc) ==
    /\ tasks' = [ tasks EXCEPT ![i] = DoneTask ]
    /\ results' = Append(results, FailureResult(targets[i], total, exc))
    /\ task_raised' = task_raised \cup { i }

(* The record of a retried call of the upload command as it ends.          *)
CallEnded(how, n, exc, caught, hist) ==
    last_call' =
        [ validate |-> (phase # "commit"), ended |-> how, attempts |-> n,
          outcome |-> exc, caught |-> caught, waits |-> tasks[1].waits,
          hist |-> hist ]

Running(i) == tasks[i].pc \in { "consume", "attempt" }

(* A pool that takes its queued futures for running threads.              *)
NumRunningAll == Cardinality({ i \in 1..Len(tasks) : tasks[i].pc # "done" })

(* A pool that takes no account of its running threads.                    *)
NumRunningNone == Cardinality({ i \in 1..Len(tasks) : FALSE })

NumRunning == Cardinality({ i \in 1..Len(tasks) : Running(i) })

InPool == main \in { "validate_all", "commit_all", "test_auth_all" }

(* A worker thread takes the next future off the executor's queue and runs *)
(* its function up to the first call of the uploader.                      *)
Start(i) ==
    /\ InPool
    /\ tasks[i].pc = "queued"
    /\ \A j \in 1..(i - 1) : tasks[j].pc # "queued"
    /\ NumRunning < max_workers
    /\ CASE phase = "validate" ->
              IF mode = "json" /\ BuildJsonRaises(rows)
              THEN /\ Caught(i, Len(rows), ValueError)
                   /\ val_outcome' = [ val_outcome EXCEPT ![i] = "raised" ]
              ELSE /\ tasks' = [ tasks EXCEPT ![i].pc = "consume" ]
                   /\ UNCHANGED << results, val_outcome, task_raised >>
         [] phase = "commit" ->
              /\ IF mode = "json" /\ BuildJsonRaises(rows)
                 THEN Caught(i, Len(rows), ValueError)
                 ELSE IF NumChunks(rows, batch_size) = 0
                 THEN Finish(i, UploadResult(targets[i], rows, 0, 0, << >>))
                 ELSE /\ tasks' = [ tasks EXCEPT ![i].pc = "consume",
                                                 ![i].batch = 1 ]
                      /\ UNCHANGED << results, task_raised >>
              /\ UNCHANGED val_outcome
         [] phase = "auth" ->
              /\ tasks' = [ tasks EXCEPT ![i].pc = "attempt" ]
              /\ UNCHANGED << results, val_outcome, task_raised >>
    /\ last_call' = NoCall
    /\ UNCHANGED << apart, inputs, main, phase, targets, returned, raised,
                    exit_code, artifact, sent >>

(* validate_csv / commit_csv: self.bucket.consume() before the retried     *)
(* call is entered.                                                        *)
Consume(i) ==
    /\ tasks[i].pc = "consume"
    /\ tasks' = [ tasks EXCEPT ![i].pc = "attempt" ]
    /\ last_call' = NoCall
    /\ UNCHANGED << apart, inputs, main, phase, targets, results, returned, raised,
                    exit_code, artifact, sent, val_outcome, task_raised >>

(* An attempt of _insert_csv / _insert_jsons raises exc and tenacity       *)
(* sleeps and tries again: exc is retryable, attempts are left.            *)
CallRetries(i, e) ==
    /\ tasks[i].pc = "attempt"
    /\ phase \in { "validate", "commit" }
    /\ LET n == tasks[i].attempt + 1
           exc == [ e EXCEPT !.seq = n ]
       IN  /\ ShouldRetry(exc)
           /\ ~StopAfterAttempt(n)
           /\ tasks' = [ tasks EXCEPT
                           ![i].attempt = n,
                           ![i].outcome = exc,
                           ![i].waits = Append(@, WaitExponential(n)),
                           ![i].hist = Append(@, HistClass(exc)) ]
    /\ RequestSent(i)
    /\ last_call' = NoCall
    /\ UNCHANGED << apart, inputs, main, phase, targets, results, returned, raised,
                    exit_code, artifact, val_outcome, task_raised >>

(* What leaves the retried call when the attempt that raised exc was its   *)
(* last: exc itself when it is not retryable, else what reraise makes of   *)
(* the last attempt's exception.                                           *)
Surfaced(exc) == IF ShouldRetry(exc) THEN Reraise(exc) ELSE exc

GivesUp(n, exc) == ~ShouldRetry(exc) \/ StopAfterAttempt(n)

(* An attempt raises exc and the call gives up; the exception is caught by *)
(* the except branch of _validate_tenant / _upload_tenant.                 *)
CallRaises(i, e) ==
    /\ InPool
    /\ tasks[i].pc = "attempt"
    /\ phase \in { "validate", "commit" }
    /\ LET n == tasks[i].attempt + 1
           exc == [ e EXCEPT !.seq = n ]
       IN  /\ GivesUp(n, exc)
           /\ last_call' = NoCall
           /\ Caught(i, Len(rows), Surfaced(exc))
    /\ val_outcome' = IF phase = "validate"
                      THEN [ val_outcome EXCEPT ![i] = "raised" ]
                      ELSE val_outcome
    /\ RequestSent(i)
    /\ UNCHANGED << apart, inputs, main, phase, targets, returned,
                    raised, exit_code, artifact >>

(* The validate call of _validate_tenant returns the decoded body.         *)
ValidateReturns(i, body) ==
    /\ InPool
    /\ tasks[i].pc = "attempt"
    /\ phase = "validate"
    /\ last_call' = NoCall
    /\ Finish(i, ValidateResult(targets[i], rows, body))
    /\ val_outcome' = [ val_outcome EXCEPT ![i] =
                          IF Reports(body) THEN "errors" ELSE "clean" ]
    /\ RequestSent(i)
    /\ UNCHANGED << apart, inputs, main, phase, targets, returned,
                    raised, exit_code, artifact >>

(* Counts in which a batch that was refused without an error list is       *)
(* dropped.                                                                *)
AccumulateLossy(t, body) ==
    LET size == Len(Chunk(rows, batch_size, t.batch))
    IN  IF body.reply = TRUE
        THEN [ succeeded |-> t.succeeded + size, failed |-> t.failed,
               errors |-> t.errors ]
        ELSE [ succeeded |-> t.succeeded,
               failed |-> IF ErrorsOf(body) # << >>
                          THEN t.failed + size ELSE t.failed,
               errors |-> t.errors \o ErrorsOf(body) ]

(* Counts in which a batch succeeded when its reply lists no errors.       *)
AccumulateByErrors(t, body) ==
    LET size == Len(Chunk(rows, batch_size, t.batch))
    IN  IF ErrorsOf(body) = << >>
        THEN [ succeeded |-> t.succeeded + size, failed |-> t.failed,
               errors |-> t.errors ]
        ELSE [ succeeded |-> t.succeeded, failed |-> t.failed + size,
               errors |-> t.errors \o ErrorsOf(body) ]

(* commit_csv / commit_json, lines 70-85: the counts after the reply to    *)
(* the batch the task is at.                                               *)
Accumulate(t, body) ==
    LET size == Len(Chunk(rows, batch_size, t.batch))
    IN  IF body.reply = TRUE
        THEN [ succeeded |-> t.succeeded + size, failed |-> t.failed,
               errors |-> t.errors ]
        ELSE [ succeeded |-> t.succeeded, failed |-> t.failed + size,
               errors |-> t.errors \o ErrorsOf(body) ]

(* A loop that stays at a batch whose reply was not true.                  *)
NextBatchRepeat(t, acc) ==
    [ NewTask EXCEPT !.pc = "consume",
                     !.batch = IF acc.failed > t.failed THEN t.batch
                               ELSE t.batch + 1,
                     !.succeeded = acc.succeeded, !.failed = acc.failed,
                     !.errors = acc.errors ]

(* The commit loop goes on to the next batch with the counts so far.       *)
NextBatch(t, acc) ==
    [ NewTask EXCEPT !.pc = "consume", !.batch = t.batch + 1,
                     !.succeeded = acc.succeeded, !.failed = acc.failed,
                     !.errors = acc.errors ]

(* The commit call for a batch returns in _upload_tenant's commit loop.    *)
CommitReturns(i, body) ==
    /\ InPool
    /\ tasks[i].pc = "attempt"
    /\ phase = "commit"
    /\ last_call' = NoCall
    /\ LET acc == Accumulate(tasks[i], body)
       IN  IF tasks[i].batch < NumChunks(rows, batch_size)
           THEN /\ tasks' = [ tasks EXCEPT ![i] = NextBatch(tasks[i], acc) ]
                /\ UNCHANGED << results, task_raised >>
           ELSE Finish(i, UploadResult(targets[i], rows, acc.succeeded,
                                       acc.failed, acc.errors))
    /\ Replied(i, body)
    /\ UNCHANGED << apart, inputs, main, phase, targets, returned,
                    raised, exit_code, artifact, val_outcome >>

(* _test_auth_tenant: one request, neither throttled nor retried.          *)
AuthProbeReturns(i, body) ==
    /\ tasks[i].pc = "attempt"
    /\ phase = "auth"
    /\ Finish(i, AuthResult(targets[i]))
    /\ RequestSent(i)
    /\ last_call' = NoCall
    /\ UNCHANGED << apart, inputs, main, phase, targets, returned, raised,
                    exit_code, artifact, val_outcome >>

AuthProbeRaises(i, e) ==
    /\ tasks[i].pc = "attempt"
    /\ phase = "auth"
    /\ Caught(i, 0, [ e EXCEPT !.seq = 1 ])
    /\ RequestSent(i)
    /\ last_call' = NoCall
    /\ UNCHANGED << apart, inputs, main, phase, targets, returned, raised,
                    exit_code, artifact, val_outcome >>

-----------------------------------------------------------------------------
(* The single-target upload command (cli.py upload), run by the main       *)
(* thread.                                                                 *)

(* Lines 733-743: settings, rows, the Uploader, the validate payload.      *)
(* get_settings comes first; its RuntimeError ends the command.            *)
UploadCommand ==
    /\ main = "start"
    /\ command = "upload"
    /\ IF GetSettingsRaises(env)
       THEN /\ raised' = RuntimeError
            /\ exit_code' = 1
            /\ main' = "raised"
            /\ UNCHANGED << targets, phase, sent, val_outcome, results, tasks >>
       ELSE /\ targets' = << SingleTarget >>
            /\ phase' = "validate"
            /\ sent' = << NoRequests >>
            /\ val_outcome' = << "pending" >>
            /\ results' = << >>
            /\ IF mode = "json" /\ BuildJsonRaises(rows)
               THEN /\ tasks' = << DoneTask >>
                    /\ raised' = ValueError
                    /\ exit_code' = 1
                    /\ main' = "raised"
               ELSE /\ tasks' = << [ NewTask EXCEPT !.pc = "consume" ] >>
                    /\ main' = "upload"
                    /\ UNCHANGED << raised, exit_code >>
    /\ last_call' = NoCall
    /\ UNCHANGED << apart, inputs, returned, artifact, task_raised >>

(* Lines 740-756: the validate call returns; on errors the command exits   *)
(* with code 2, else commit_csv / commit_json is entered.                  *)
UploadValidateReturns(body) ==
    /\ main = "upload"
    /\ phase = "validate"
    /\ tasks[1].pc = "attempt"
    /\ CallEnded("returned", tasks[1].attempt + 1, NoExc, NoExc,
                 Append(tasks[1].hist, "ok"))
    /\ RequestSent(1)
    /\ val_outcome' = << IF Reports(body) THEN "errors" ELSE "clean" >>
    /\ IF ErrorsOf(body) # << >>
       THEN /\ artifact' = "upload-validation-failed"
            /\ exit_code' = 2
            /\ main' = "exited"
            /\ tasks' = << DoneTask >>
            /\ UNCHANGED phase
       ELSE /\ phase' = "commit"
            /\ IF NumChunks(rows, batch_size) = 0
               THEN /\ artifact' = "upload"
                    /\ exit_code' = 0
                    /\ main' = "exited"
                    /\ tasks' = << DoneTask >>
               ELSE /\ tasks' = << [ NewTask EXCEPT !.pc = "consume",
                                                    !.batch = 1 ] >>
                    /\ UNCHANGED << exit_code, artifact, main >>
    /\ UNCHANGED << apart, inputs, targets, results, returned, raised, task_raised >>

(* Lines 753-771: a commit call returns; after the last batch the command  *)
(* exits with code 2 when rows failed.                                     *)
UploadCommitReturns(body) ==
    /\ main = "upload"
    /\ phase = "commit"
    /\ tasks[1].pc = "attempt"
    /\ CallEnded("returned", tasks[1].attempt + 1, NoExc, NoExc,
                 Append(tasks[1].hist, "ok"))
    /\ Replied(1, body)
    /\ LET acc == Accumulate(tasks[1], body)
       IN  IF tasks[1].batch < NumChunks(rows, batch_size)
           THEN /\ tasks' = << NextBatch(tasks[1], acc) >>
                /\ UNCHANGED << exit_code, artifact, main >>
           ELSE /\ tasks' = << [ DoneTask EXCEPT !.succeeded = acc.succeeded,
                                                 !.failed = acc.failed,
                                                 !.errors = acc.errors ] >>
                /\ artifact' = "upload"
                /\ exit_code' = IF acc.failed > 0 THEN 2 ELSE 0
                /\ main' = "exited"
    /\ UNCHANGED << apart, inputs, phase, targets, results, returned, raised,
                    val_outcome, task_raised >>

(* A retried call of the command gives up: nothing catches the exception.  *)
UploadCallRaises(e) ==
    /\ main = "upload"
    /\ tasks[1].pc = "attempt"
    /\ LET n == tasks[1].attempt + 1
           exc == [ e EXCEPT !.seq = n ]
       IN  /\ GivesUp(n, exc)
           /\ CallEnded("raised", n, exc, Surfaced(exc),
                        Append(tasks[1].hist, HistClass(exc)))
           /\ raised' = Surfaced(exc)
    /\ val_outcome' = IF phase = "validate" THEN << "raised" >> ELSE val_outcome
    /\ RequestSent(1)
    /\ tasks' = << DoneTask >>
    /\ exit_code' = 1
    /\ main' = "raised"
    /\ UNCHANGED << apart, inputs, phase, targets, results, returned, artifact,
                    task_raised >>

-----------------------------------------------------------------------------
(* The multi-tenant commands (cli.py validate_multi, upload_multi).        *)

(* The try block up to the call on the uploader, lines 829-842 and         *)
(* 899-912: the settings are loaded, then the rows, the uploader is made   *)
(* and the call raises.  The except Exception branch prints the exception  *)
(* and raises typer.Exit(code=1).  The lines after the call are not        *)
(* reached.                                                                *)
CliMultiCommand ==
    /\ main = "start"
    /\ command \in CliCommands
    /\ LET exc == IF LoadRaises(settings) THEN ValueError
                  ELSE CallError(CliCall(command))
       IN  /\ exc # NoExc
           /\ raised' = exc
    /\ exit_code' = 1
    /\ main' = "exited"
    /\ last_call' = NoCall
    /\ UNCHANGED << apart, inputs, phase, targets, tasks, results, returned,
                    artifact, sent, val_outcome, task_raised >>

-----------------------------------------------------------------------------
(* TokenBucket (rate_limiter.py) under the threads of the per-target       *)
(* tasks.  The body of "with self.lock" is one step: the lock lets no      *)
(* other thread in between its reads and writes.                           *)

(* A refill that is not capped.                                            *)
RefillUnbounded(tokens, elapsed, capacity) == tokens + elapsed * Rate

(* Line 21: min(capacity, tokens + elapsed * rate).                        *)
Refill(tokens, elapsed, capacity) == Min(capacity, tokens + elapsed * Rate)

(* A test that never grants a request for no token.                        *)
EnoughPositive(tokens, n) == n > 0 /\ tokens >= n

(* A test that lets every request through.                                 *)
EnoughAlways(tokens, n) == TRUE

(* Line 22: self.tokens >= tokens.                                         *)
Enough(tokens, n) == tokens >= n

(* The bucket thread i consumes from: its tenant's uploader's.             *)
BucketOf(i) == settings[i].name

(* consume(n) is called by thread i.                                       *)
ConsumeCall(i, n) ==
    /\ threads[i].pc = "idle"
    /\ threads[i].calls < MaxCalls
    /\ threads' = [ threads EXCEPT ![i].pc = "pass",
                                   ![i].n = n * Resolution,
                                   ![i].calls = @ + 1,
                                   ![i].waited = FALSE ]
    /\ UNCHANGED << core, now, buckets, client, call, draws, wire >>

(* Lines 17-27: one pass of the loop under the lock.  The bucket is        *)
(* refilled for the time since its timestamp; with enough tokens they are  *)
(* taken and consume returns, else the thread leaves the lock to sleep     *)
(* needed / rate.  The thread's record keeps the last pass that found too  *)
(* few tokens: when, and how many were missing.                            *)
ConsumePass(i) ==
    /\ threads[i].pc = "pass"
    /\ LET b == buckets[BucketOf(i)]
           n == threads[i].n
           filled == Refill(b.tokens, now - b.timestamp, b.capacity)
           seen == IF filled < n
                   THEN [ threads[i] EXCEPT !.waited = TRUE,
                                            !.seen_at = now,
                                            !.short = n - filled ]
                   ELSE threads[i]
       IN  IF Enough(filled, n)
           THEN /\ buckets' = [ buckets EXCEPT
                                  ![BucketOf(i)].timestamp = now,
                                  ![BucketOf(i)].tokens = filled - n ]
                /\ threads' = [ threads EXCEPT
                                  ![i] = [ seen EXCEPT
                                             !.pc = IF seen.caller = "uploader"
                                                    THEN "attempt" ELSE "idle",
                                             !.returned_at = now,
                                             !.taken = @ + n ] ]
           ELSE /\ buckets' = [ buckets EXCEPT
                                  ![BucketOf(i)].timestamp = now,
                                  ![BucketOf(i)].tokens = filled ]
                /\ threads' = [ threads EXCEPT
                                  ![i] = [ seen EXCEPT !.pc = "sleep" ] ]
    /\ UNCHANGED << core, now, client, call, draws, wire >>

(* Line 28: time.sleep(sleep_for) returns, not before sleep_for =           *)
(* needed / rate has passed, and the loop goes round.                      *)
ConsumeWake(i) ==
    /\ threads[i].pc = "sleep"
    /\ (now - threads[i].seen_at) * Rate >= threads[i].short
    /\ threads' = [ threads EXCEPT ![i].pc = "pass" ]
    /\ UNCHANGED << core, now, buckets, client, call, draws, wire >>

(* Time passes.                                                            *)
Tick ==
    /\ now < MaxTime
    /\ now' = now + 1
    /\ UNCHANGED << core, buckets, threads, client, call, draws, wire >>

-----------------------------------------------------------------------------
(* The calls of Uploader on its bucket and its client (uploader.py lines   *)
(* 53-68): self.bucket.consume(), then the retried _insert_csv.            *)

(* validate_csv, or commit_csv at a batch, is entered: consume() with its  *)
(* default of one token.                                                   *)
UploaderCall(i) ==
    /\ threads[i].pc = "idle"
    /\ threads[i].calls < MaxCalls
    /\ threads' = [ threads EXCEPT ![i].pc = "pass",
                                   ![i].n = 1 * Resolution,
                                   ![i].calls = @ + 1,
                                   ![i].waited = FALSE,
                                   ![i].caller = "uploader",
                                   ![i].attempt = 0,
                                   ![i].ended = "none" ]
    /\ UNCHANGED << core, now, buckets, client, call, draws, wire >>

(* An attempt of the retried call sends its request, which fails with e:   *)
(* tenacity calls _insert_csv again, or the call gives up.                 *)
RequestFails(i, e) ==
    /\ threads[i].pc = "attempt"
    /\ LET n == threads[i].attempt + 1
       IN  threads' = [ threads EXCEPT
               ![i].requests = @ + 1,
               ![i].attempt = IF GivesUp(n, e) THEN 0 ELSE n,
               ![i].pc = IF GivesUp(n, e) THEN "idle" ELSE "attempt",
               ![i].caller = IF GivesUp(n, e) THEN "consume" ELSE @,
               ![i].ended = IF GivesUp(n, e) THEN "raised" ELSE @ ]
    /\ UNCHANGED << core, now, buckets, client, call, draws, wire >>

(* An attempt sends its request and the call returns the body.             *)
RequestReturns(i) ==
    /\ threads[i].pc = "attempt"
    /\ threads' = [ threads EXCEPT ![i].requests = @ + 1,
                                   ![i].attempt = 0,
                                   ![i].pc = "idle",
                                   ![i].caller = "consume",
                                   ![i].ended = "returned" ]
    /\ UNCHANGED << core, now, buckets, client, call, draws, wire >>

-----------------------------------------------------------------------------
(* XdrApiClient._post under the retried calls of Uploader.                 *)

(* _insert_csv / _insert_jsons is called on the client.                    *)
ClientCall ==
    /\ call.pc = "idle"
    /\ call.calls < MaxCalls
    /\ call' = [ pc |-> "attempt", attempt |-> 0, calls |-> call.calls + 1,
                 ended |-> "none" ]
    /\ UNCHANGED << core, now, buckets, threads, client, draws, wire >>

(* _post, lines 53-54: the headers are computed, with a nonce drawn in     *)
(* advanced mode, and the request is sent with them.                       *)
Post ==
    /\ draws' = IF client.advanced THEN draws + 1 ELSE draws
    /\ wire' = Append(wire,
                  [ headers |-> RequestHeaders(wire,
                                   Headers(client, Nonce(draws + 1),
                                           Timestamp(now))),
                    at |-> now, call |-> call.calls,
                    attempt |-> call.attempt + 1 ])

(* The request is answered with an error; tenacity tries again when it is  *)
(* retryable and attempts are left, else the call ends with it.            *)
PostRaises(e) ==
    /\ call.pc = "attempt"
    /\ Post
    /\ LET n == call.attempt + 1
       IN  IF GivesUp(n, e)
           THEN call' = [ call EXCEPT !.pc = "idle", !.attempt = 0,
                                      !.ended = "raised" ]
           ELSE call' = [ call EXCEPT !.attempt = n ]
    /\ UNCHANGED << core, now, buckets, threads, client >>

(* The request is answered with a body and the call returns it.            *)
PostReturns ==
    /\ call.pc = "attempt"
    /\ Post
    /\ call' = [ call EXCEPT !.pc = "idle", !.attempt = 0,
                             !.ended = "returned" ]
    /\ UNCHANGED << core, now, buckets, threads, client >>

-----------------------------------------------------------------------------
(* The specifications.                                                     *)

(* What the backend and the network may answer with.                       *)
SomeErrors == { HTTPError(404), HTTPError(500), ConnectionError }

AllErrors == { HTTPError(s) : s \in 400..599 } \cup { ConnectionError, Timeout }

Step(Errors) ==
    \/ ValidateAllCall
    \/ ValidateAllReturn
    \/ UploadAllCall
    \/ UploadAllAbort
    \/ UploadAllCommit
    \/ UploadAllReturn
    \/ TestAuthAllCall
    \/ TestAuthAllReturn
    \/ UploadCommand
    \/ \E i \in 1..Len(tasks) : Start(i)
    \/ \E i \in 1..Len(tasks) : Consume(i)
    \/ \E i \in 1..Len(tasks), e \in Errors : CallRetries(i, e)
    \/ \E i \in 1..Len(tasks), e \in Errors : CallRaises(i, e)
    \/ \E i \in 1..Len(tasks), body \in Bodies : ValidateReturns(i, body)
    \/ \E i \in 1..Len(tasks), body \in Bodies : CommitReturns(i, body)
    \/ \E i \in 1..Len(tasks), body \in Bodies : AuthProbeReturns(i, body)
    \/ \E i \in 1..Len(tasks), e \in Errors : AuthProbeRaises(i, e)
    \/ \E body \in Bodies : UploadValidateReturns(body)
    \/ \E body \in Bodies : UploadCommitReturns(body)
    \/ \E e \in Errors : UploadCallRaises(e)

(* Every operation, with a few kinds of failure.                           *)
Next == Step(SomeErrors)

Spec == Init /\ [][Next]_vars

SpecTenants == InitTenants /\ [][Next]_vars

(* The same under the scheduling the code runs with: a thread that can     *)
(* take a step takes one, a request that was sent is answered or raises,   *)
(* a consume returns as time goes on.                                      *)
SpecLive == Init /\ [][Next]_vars /\ WF_vars(Next)

(* The upload command alone, with every kind of failure of a request.      *)
NextRetry ==
    \/ UploadCommand
    \/ \E i \in 1..Len(tasks) : Consume(i)
    \/ \E i \in 1..Len(tasks), e \in AllErrors : CallRetries(i, e)
    \/ \E body \in Bodies : UploadValidateReturns(body)
    \/ \E body \in Bodies : UploadCommitReturns(body)
    \/ \E e \in AllErrors : UploadCallRaises(e)

SpecRetry == InitRetry /\ [][NextRetry]_vars

(* The two uploads, validate phase and commit phase.                       *)
NextCommit ==
    \/ UploadAllCall
    \/ UploadAllAbort
    \/ UploadAllCommit
    \/ UploadAllReturn
    \/ UploadCommand
    \/ \E i \in 1..Len(tasks) : Start(i)
    \/ \E i \in 1..Len(tasks) : Consume(i)
    \/ \E i \in 1..Len(tasks), e \in SomeErrors : CallRetries(i, e)
    \/ \E i \in 1..Len(tasks), e \in SomeErrors : CallRaises(i, e)
    \/ \E i \in 1..Len(tasks), body \in Bodies : ValidateReturns(i, body)
    \/ \E i \in 1..Len(tasks), body \in Bodies : CommitReturns(i, body)
    \/ \E body \in Bodies : UploadValidateReturns(body)
    \/ \E body \in Bodies : UploadCommitReturns(body)
    \/ \E e \in SomeErrors : UploadCallRaises(e)

SpecCommit == InitCommit /\ [][NextCommit]_vars

(* The token buckets alone.                                                *)
NextBucket ==
    \/ \E i \in 1..Len(threads), n \in 0..MaxConsume : ConsumeCall(i, n)
    \/ \E i \in 1..Len(threads) : ConsumePass(i)
    \/ \E i \in 1..Len(threads) : ConsumeWake(i)
    \/ Tick

SpecBucket == InitBucket /\ [][NextBucket]_vars

(* The uploader calls of one target's task.                                *)
NextThrottle ==
    \/ \E i \in 1..Len(threads) : UploaderCall(i)
    \/ \E i \in 1..Len(threads) : ConsumePass(i)
    \/ \E i \in 1..Len(threads) : ConsumeWake(i)
    \/ \E i \in 1..Len(threads), e \in SomeErrors : RequestFails(i, e)
    \/ \E i \in 1..Len(threads) : RequestReturns(i)
    \/ Tick

SpecThrottle == InitThrottle /\ [][NextThrottle]_vars

(* The multi-tenant commands.                                              *)
NextCli == CliMultiCommand

SpecCli == InitCli /\ [][NextCli]_vars

(* The requests of one client.                                             *)
NextClient ==
    \/ ClientCall
    \/ \E e \in SomeErrors : PostRaises(e)
    \/ PostReturns
    \/ Tick

SpecClient == InitClient /\ [][NextClient]_vars

-----------------------------------------------------------------------------
(* Properties of the multi-tenant operations and of the upload command,    *)
(* checked under Spec.                                                     *)

Targets == 1..Len(targets)

Aggregate == returned[1]

Multi == command \in { "validate_all", "upload_all", "test_auth_all" }

(* C1: in upload_all no commit request is sent to any target before every  *)
(* target's validate task has finished, and none at all unless every       *)
(* target's validate call returned without errors and without raising;     *)
(* when a target fails validation the returned aggregate is not            *)
(* overall_success.                                                        *)
C1_CommitGate ==
    command = "upload_all" =>
        /\ \A i \in Targets :
              sent[i].commit => \A j \in Targets : val_outcome[j] = "clean"
        /\ ( /\ returned # << >>
             /\ \E j \in Targets : val_outcome[j] \in { "errors", "raised" } )
           => ( /\ ~OverallSuccess(Aggregate)
                /\ \A i \in Targets : ~sent[i].commit )

(* The commit phase of upload_all on two targets has reached one of them.  *)
C1_Witness ==
    /\ command = "upload_all"
    /\ Len(targets) = 2
    /\ sent[1].commit
    /\ ~sent[2].commit

(* C2: when the validate reply of the upload command carries errors under  *)
(* "errors" or "validation_errors", no commit request is sent and the run  *)
(* ends as a validation failure (exit code 2, artifact                     *)
(* upload-validation-failed).                                              *)
C2_ValidateGate ==
    ( command = "upload" /\ val_outcome = << "errors" >> ) =>
        /\ ~sent[1].commit
        /\ main = "exited"
        /\ exit_code = 2
        /\ artifact = "upload-validation-failed"

(* The upload command has ended on a validate reply that carries errors.   *)
C2_Witness ==
    /\ command = "upload"
    /\ val_outcome = << "errors" >>
    /\ sent[1].validate
    /\ exit_code = 2

(* The results appended so far for target i.                               *)
ResultsFor(rs, i) ==
    { k \in 1..Len(rs) : rs[k].tenant_name = targets[i].name }

(* C3: an exception raised inside a per-target task never leaves           *)
(* _validate_all, upload_all or test_auth_all and leaves the sibling tasks *)
(* to finish: the failing target gets a result with success false and a    *)
(* non-empty error_message, the aggregate has a result for every target    *)
(* and counts every failing target as failed; in test_auth_all, where only *)
(* a raise fails a target, the successes are exactly the other targets.    *)
C3_Isolation ==
    Multi =>
        /\ raised # NoExc => tasks = << >>
        /\ \A i \in task_raised :
              /\ tasks[i].pc = "done"
              /\ \E k \in ResultsFor(results, i) :
                    /\ ~results[k].success
                    /\ results[k].error_message \notin { None, "" }
        /\ returned # << >> =>
              /\ Aggregate.total_tenants = Len(targets)
              /\ Aggregate.failed_tenants >= Cardinality(task_raised)
              /\ command = "test_auth_all" =>
                    /\ Aggregate.failed_tenants = Cardinality(task_raised)
                    /\ Aggregate.successful_tenants =
                           Len(targets) - Cardinality(task_raised)

(* test_auth_all on [A, B, C] has returned and only B's probe raised.      *)
C3_Witness ==
    /\ command = "test_auth_all"
    /\ returned # << >>
    /\ Len(targets) = 3
    /\ task_raised = { 2 }
    /\ Aggregate.total_tenants = 3
    /\ Aggregate.successful_tenants = 2
    /\ Aggregate.failed_tenants = 1
    /\ ~OverallSuccess(Aggregate)
    /\ PartialSuccess(Aggregate)

(* C4: in every aggregate, successful_tenants is the number of results     *)
(* with success true, successful + failed = total = the number of results, *)
(* overall_success is failed = 0, partial_success is                       *)
(* 0 < successful < total, and the two are never both true.                *)
C4_AggregateCounts ==
    returned # << >> =>
        LET rs == Aggregate.tenant_results
            ok == Cardinality({ k \in 1..Len(rs) : rs[k].success })
        IN  /\ Aggregate.successful_tenants = ok
            /\ Aggregate.successful_tenants + Aggregate.failed_tenants
                   = Aggregate.total_tenants
            /\ Aggregate.total_tenants = Len(rs)
            /\ OverallSuccess(Aggregate) <=> (Aggregate.failed_tenants = 0)
            /\ OverallSuccess(Aggregate) <=> (ok = Len(rs))
            /\ PartialSuccess(Aggregate) <=>
                   (0 < Aggregate.successful_tenants
                    /\ Aggregate.successful_tenants < Aggregate.total_tenants)
            /\ ~(OverallSuccess(Aggregate) /\ PartialSuccess(Aggregate))

(* An aggregate of three results, some but not all of them successes.      *)
C4_Witness ==
    /\ returned # << >>
    /\ Aggregate.total_tenants = 3
    /\ Aggregate.successful_tenants = 2
    /\ PartialSuccess(Aggregate)

(* C5: the aggregate an operation returns holds exactly one result per     *)
(* target, named after it, whatever the order the tasks completed in, and  *)
(* it is built only when every submitted task has finished.                *)
C5_OneResultPerTarget ==
    ( Multi /\ returned # << >> ) =>
        /\ AllDone
        /\ Len(tasks) = Len(targets)
        /\ Len(Aggregate.tenant_results) = Len(targets)
        /\ \A i \in Targets :
              Cardinality(ResultsFor(Aggregate.tenant_results, i)) = 1

(* Three targets, the first one's task the last to complete.               *)
C5_Witness ==
    /\ Multi
    /\ returned # << >>
    /\ Len(targets) = 3
    /\ Aggregate.tenant_results[1].tenant_name = targets[2].name
    /\ Aggregate.tenant_results[3].tenant_name = targets[1].name

(* C6: when upload_all returns after a failed validation, every result of  *)
(* the aggregate has success false, the results of the targets whose own   *)
(* validate reply carried no errors included.  The code returns the        *)
(* validation aggregate as it is, so a clean target keeps success true.    *)
C6_AbortFailsEveryTarget ==
    ( /\ command = "upload_all"
      /\ returned # << >>
      /\ \E j \in Targets : val_outcome[j] = "errors" )
    => \A k \in 1..Len(Aggregate.tenant_results) :
          ~Aggregate.tenant_results[k].success

(* C17: at every moment of _validate_all, upload_all and test_auth_all at  *)
(* most max_workers per-target tasks are executing; with more targets than *)
(* workers the others wait in the queue, and all of them have run when the *)
(* operation returns.                                                      *)
C17_PoolBound ==
    Multi =>
        /\ Cardinality({ i \in 1..Len(tasks) :
                           tasks[i].pc \notin { "queued", "done" } })
               <= max_workers
        /\ \A i \in 1..Len(tasks) :
              tasks[i].pc = "queued" => ~sent[i][Flag]
        /\ returned # << >> =>
              /\ \A i \in 1..Len(tasks) : tasks[i].pc = "done"
              /\ command = "test_auth_all" => \A i \in Targets : sent[i].validate

(* Three targets on two workers: two tasks execute, the third is queued.   *)
C17_Witness ==
    /\ Multi
    /\ Len(targets) = 3
    /\ max_workers = 2
    /\ tasks[1].pc = "attempt"
    /\ tasks[2].pc = "attempt"
    /\ tasks[3].pc = "queued"

(* A tenant name was asked for that no configured tenant has.              *)
UnknownTenant ==
    /\ tenant_names.given
    /\ \E k \in 1..Len(tenant_names.list) :
          \A j \in 1..Len(settings) : settings[j].name # tenant_names.list[k]

(* A required variable is unset, empty or blank.                           *)
MissingCredentials == \E name \in Required : env[name] \in { "", " " }

NothingSent ==
    /\ tasks = << >>
    /\ \A i \in 1..Len(sent) : ~sent[i].validate /\ ~sent[i].commit
    /\ returned = << >>

(* C25: a configuration error is raised before any network request: with   *)
(* a tenant name that is not configured upload_all and test_auth_all raise *)
(* ValueError before any per-target task is submitted, and with a required *)
(* credential missing the upload command fails on get_settings'            *)
(* RuntimeError before any request is sent.                                *)
C25_ConfigErrorFirst ==
    /\ ( command \in { "upload_all", "test_auth_all" } /\ UnknownTenant ) =>
          /\ NothingSent
          /\ main \in { "start", "raised" }
          /\ main = "raised" => raised = ValueError
    /\ ( command = "upload" /\ MissingCredentials ) =>
          /\ NothingSent
          /\ main \in { "start", "raised" }
          /\ main = "raised" => raised = RuntimeError /\ exit_code = 1

(* upload_all was asked for a tenant that is not configured and raised.    *)
C25_Witness ==
    /\ command = "upload_all"
    /\ tenant_names = Named(<< "Z" >>)
    /\ main = "raised"
    /\ raised = ValueError
    /\ sent = << >>

(* C29: test_auth_all sends exactly one request, with the validate flag,   *)
(* per target and run: the probe goes through neither the token bucket nor *)
(* the retry, so an answer of 429 or 5xx at once makes a failed result,    *)
(* and an answer that does not raise makes a result with success true.     *)
C29_AuthProbe ==
    [][ command = "test_auth_all" =>
          \A i \in 1..Len(tasks') :
              /\ tasks'[i].pc # "consume"
              /\ tasks'[i].attempt = 0
              /\ tasks'[i].waits = << >>
              /\ ~sent'[i].commit
              /\ tasks'[i].pc = "done" <=> sent'[i].validate
              /\ ( i <= Len(sent) /\ sent'[i] # sent[i] ) =>
                    /\ ~sent[i].validate
                    /\ tasks'[i].pc = "done"
                    /\ Len(results') = Len(results) + 1
                    /\ LET r == results'[Len(results')]
                       IN  /\ r.tenant_name = targets[i].name
                           /\ r.success <=> i \notin task_raised'
                           /\ r.error_message = "Server Error" => ~r.success
                           /\ r.success => r.error_message = None ]_vars

(* test_auth_all on two targets has returned: the first probe was answered *)
(* with a 500 and failed, the second was answered and succeeded.           *)
C29_Witness ==
    /\ command = "test_auth_all"
    /\ main = "returned"
    /\ Len(targets) = 2
    /\ task_raised = { 1 }
    /\ sent[1].validate
    /\ sent[2].validate
    /\ \E k \in 1..2 :
          /\ results[k].tenant_name = targets[1].name
          /\ results[k].error_message = "Server Error"
          /\ ~results[k].success
    /\ Aggregate.successful_tenants = 1

-----------------------------------------------------------------------------
(* Properties of the targets of the requests, checked under SpecTenants.   *)

(* C27: every validate or commit request of the per-target task for a      *)
(* tenant entry is sent to the entry's own host and signed with its own    *)
(* key id and key, for every list of entries the settings accept.  Two     *)
(* entries of one name share the Uploader of the later one, so the         *)
(* requests for the earlier entry go to the later entry's host.            *)
C27_OwnHostAndKey ==
    Multi =>
        \A i \in 1..Len(sent) : \A s \in sent[i].via :
            /\ s.fqdn = targets[i].fqdn
            /\ s.api_key_id = targets[i].api_key_id
            /\ s.api_key = targets[i].api_key

-----------------------------------------------------------------------------
(* Termination of the multi-tenant operations, checked under SpecLive.     *)

-----------------------------------------------------------------------------
(* Properties of the retried calls, checked under SpecRetry.               *)

Retryable == { "429", "5xx" }

Ended == last_call.ended # "none"

Last(s) == s[Len(s)]

(* C7: a retried call is attempted until the first attempt that succeeds   *)
(* or fails non-retryably and at most 5 times: 500, 500, 500, success is a *)
(* success after 4 attempts, a 404 ends the call after 1 attempt, five     *)
(* 500s end it with an error after 5 attempts.                             *)
C7_AttemptsBounded ==
    /\ \A i \in 1..Len(tasks) :
          /\ tasks[i].attempt < MaxAttempts
          /\ Len(tasks[i].hist) = tasks[i].attempt
          /\ \A k \in 1..Len(tasks[i].hist) : tasks[i].hist[k] \in Retryable
    /\ Ended =>
          /\ last_call.attempts \in 1..MaxAttempts
          /\ Len(last_call.hist) = last_call.attempts
          /\ \A k \in 1..(last_call.attempts - 1) :
                last_call.hist[k] \in Retryable
          /\ (last_call.ended = "returned") <=> (Last(last_call.hist) = "ok")
          /\ last_call.ended = "raised" =>
                \/ Last(last_call.hist) \notin Retryable
                \/ last_call.attempts = MaxAttempts
          /\ last_call.hist = << "5xx", "5xx", "5xx", "ok" >> =>
                last_call.ended = "returned" /\ last_call.attempts = 4
          /\ last_call.hist[1] = "404" =>
                last_call.ended = "raised" /\ last_call.attempts = 1
          /\ last_call.hist = << "5xx", "5xx", "5xx", "5xx", "5xx" >> =>
                last_call.ended = "raised" /\ last_call.attempts = 5

(* Three server errors, then the fourth attempt returns.                   *)
C7_Witness ==
    /\ last_call.ended = "returned"
    /\ last_call.hist = << "5xx", "5xx", "5xx", "ok" >>
    /\ last_call.attempts = 4

(* C8: when a retried call gives up, what reaches its caller is the        *)
(* exception of the last attempt itself, neither a wrapper nor an earlier  *)
(* attempt's exception, and the call does not return normally.             *)
C8_LastErrorReraised ==
    /\ last_call.ended = "raised" =>
          /\ last_call.caught = last_call.outcome
          /\ last_call.caught.seq = last_call.attempts
          /\ raised = last_call.outcome
          /\ main = "raised"
          /\ exit_code = 1
    /\ last_call.ended = "returned" =>
          /\ last_call.outcome = NoExc
          /\ Last(last_call.hist) = "ok"
          /\ raised = NoExc

(* Five server errors: the call has given up with the fifth one.           *)
C8_Witness ==
    /\ last_call.ended = "raised"
    /\ last_call.attempts = MaxAttempts
    /\ raised.kind = "HTTPError"
    /\ raised.status = 500
    /\ raised.seq = MaxAttempts

IsRetryableStatus(exc) ==
    /\ exc.kind = "HTTPError"
    /\ exc.status = 429 \/ exc.status \in 500..599

(* C9: _should_retry holds exactly of an HTTP error response with status   *)
(* 429 or 500..599; any other 4xx status ends the call at the attempt that *)
(* got it, on the first attempt with no backoff wait at all.               *)
C9_Classification ==
    /\ \A e \in AllErrors : ShouldRetry(e) <=> IsRetryableStatus(e)
    /\ \A i \in 1..Len(tasks) :
          tasks[i].attempt >= 1 =>
              /\ IsRetryableStatus(tasks[i].outcome)
              /\ Len(tasks[i].waits) = tasks[i].attempt
    /\ last_call.ended = "raised" =>
          /\ Len(last_call.waits) = last_call.attempts - 1
          /\ last_call.attempts < MaxAttempts =>
                ~IsRetryableStatus(last_call.outcome)
          /\ ( /\ last_call.hist[1] \in { "404", "4xx" } )
             => last_call.attempts = 1 /\ last_call.waits = << >>

(* A 429 is waited out once, the 404 that follows ends the call at once.   *)
C9_Witness ==
    /\ last_call.ended = "raised"
    /\ last_call.hist = << "429", "404" >>
    /\ last_call.waits = << 1 >>
    /\ last_call.attempts = 2

(* C10: a request that fails with a connectivity error or a timeout is     *)
(* retried, the error reaching the caller only after the attempts are      *)
(* exhausted.  _should_retry is false of an exception that is not an       *)
(* HTTPError, so the first such failure ends the call.                     *)
C10_NetworkErrorsRetried ==
    ( /\ last_call.ended = "raised"
      /\ last_call.outcome.kind \in { "ConnectionError", "Timeout" } )
    => last_call.attempts = MaxAttempts

(* min(30, 2^(k-1)).                                                       *)
BackoffSeconds(k) == IF 2 ^ (k - 1) < 30 THEN 2 ^ (k - 1) ELSE 30

(* C22: the wait after the k-th failed retryable attempt, k = 1..4, is     *)
(* min(30, 2^(k-1)) seconds, that is 1, 2, 4, 8; no wait exceeds 30        *)
(* seconds and there is no wait after the 5th attempt.                     *)
C22_Backoff ==
    /\ \A k \in 1..MaxWaitIndex :
          /\ WaitExponential(k) = BackoffSeconds(k)
          /\ WaitExponential(k) <= 30
    /\ \A i \in 1..Len(tasks) :
          /\ Len(tasks[i].waits) = tasks[i].attempt
          /\ Len(tasks[i].waits) <= MaxAttempts - 1
          /\ \A k \in 1..Len(tasks[i].waits) :
                tasks[i].waits[k] = BackoffSeconds(k)
    /\ Ended =>
          /\ Len(last_call.waits) = last_call.attempts - 1
          /\ \A k \in 1..Len(last_call.waits) :
                /\ last_call.waits[k] = BackoffSeconds(k)
                /\ last_call.waits[k] <= 30
          /\ last_call.attempts = MaxAttempts =>
                last_call.waits = << 1, 2, 4, 8 >>

(* A call that gave up after five attempts waited 1, 2, 4 and 8 seconds.   *)
C22_Witness ==
    /\ last_call.ended = "raised"
    /\ last_call.attempts = MaxAttempts
    /\ last_call.waits = << 1, 2, 4, 8 >>
    /\ Len(last_call.hist) = MaxAttempts

-----------------------------------------------------------------------------
(* Properties of the commit phase, checked under SpecCommit.               *)

(* ceil(n / b).                                                            *)
Batches(n, b) == CHOOSE m \in 0..n : m * b >= n /\ (m - 1) * b < n

RECURSIVE Concat(_)
Concat(cs) == IF cs = << >> THEN << >> ELSE Head(cs) \o Concat(Tail(cs))

(* The targets whose commit loop is running.                               *)
Committing ==
    { i \in 1..Len(tasks) :
        phase = "commit" /\ tasks[i].pc \in { "consume", "attempt" } }

(* The commit loop of target i has ended, by a return or by an exception.  *)
CommitEnded(i) == phase = "commit" /\ tasks[i].pc = "done"

(* The rows of the commit calls of target i that were answered.            *)
Answered(i) ==
    LET cs == sent[i].calls
    IN  Len(Concat(cs)) -
            ( IF tasks[i].pc = "attempt" /\ tasks[i].attempt >= 1
              THEN Len(Last(cs)) ELSE 0 )

(* C11: in the commit phase a batch whose request still fails when its     *)
(* retries are exhausted is counted as failed, the remaining batches are   *)
(* still submitted, and the outcome is returned as data, not raised.  In   *)
(* the code the exception of _insert_csv leaves commit_csv: the loop ends  *)
(* at that batch, the command raises and _upload_tenant reports failed 0.  *)
C11_FailedBatchIsData ==
    /\ ( /\ command = "upload"
         /\ last_call.ended = "raised"
         /\ ~last_call.validate
         /\ last_call.attempts = MaxAttempts )
       => main # "raised"
    /\ ( command = "upload_all" /\ phase = "commit" ) =>
          \A i \in task_raised : \A k \in ResultsFor(results, i) :
              results[k].error_message = "Server Error" =>
                  /\ results[k].failed > 0
                  /\ Len(sent[i].calls) = Batches(Len(rows), batch_size)

(* C12: a result of upload_all's commit phase reports succeeded > 0 when   *)
(* at least one batch of its target was acknowledged by the backend.  In   *)
(* the code a later batch that raises makes _upload_tenant report          *)
(* succeeded 0 although rows were committed.                               *)
C12_CommittedRowsReported ==
    ( command = "upload_all" /\ phase = "commit" ) =>
        \A i \in Targets : \A k \in ResultsFor(results, i) :
            sent[i].acked > 0 => results[k].succeeded > 0

(* C13: when commit_csv / commit_json returns for n rows the counts        *)
(* satisfy succeeded + failed = n, every answered batch having added its   *)
(* full size to exactly one of the two counters.                           *)
C13_CountsAddUp ==
    /\ \A i \in Committing :
          /\ tasks[i].succeeded = sent[i].acked
          /\ tasks[i].succeeded + tasks[i].failed = Answered(i)
    /\ ( command = "upload" /\ artifact = "upload" ) =>
          /\ tasks[1].succeeded = sent[1].acked
          /\ tasks[1].succeeded + tasks[1].failed = Len(rows)
    /\ ( command = "upload_all" /\ phase = "commit" ) =>
          \A i \in Targets \ task_raised : \A k \in ResultsFor(results, i) :
              /\ results[k].succeeded = sent[i].acked
              /\ results[k].succeeded + results[k].failed = Len(rows)

(* Five rows in batches of two: the middle batch was refused.              *)
C13_Witness ==
    /\ command = "upload"
    /\ artifact = "upload"
    /\ Len(rows) = 5
    /\ batch_size = 2
    /\ tasks[1].succeeded = 3
    /\ tasks[1].failed = 2

(* C14: the commit phase issues one commit call per batch, ceil(n/b)       *)
(* batches in row order, each of b rows but a possibly smaller last one,   *)
(* their concatenation being the dataset; batch k+1 is sent only after the *)
(* call for batch k has returned.                                          *)
C14_Batching ==
    \A i \in 1..Len(sent) :
        LET cs == sent[i].calls
            n == Len(rows)
            all == Concat(cs)
        IN  /\ Len(cs) <= Batches(n, batch_size)
            /\ \A k \in 1..Len(cs) :
                  /\ Len(cs[k]) \in 1..batch_size
                  /\ k < Batches(n, batch_size) => Len(cs[k]) = batch_size
            /\ all = SubSeq(rows, 1, Len(all))
            /\ i \in Committing =>
                  Len(all) - (tasks[i].succeeded + tasks[i].failed)
                      \in { 0, Len(Last(<< << >> >> \o cs)) }
            /\ ( CommitEnded(i) /\ i \notin task_raised /\ main # "raised" ) =>
                  /\ Len(cs) = Batches(n, batch_size)
                  /\ all = rows

(* Five rows in batches of two were sent as batches of 2, 2 and 1 rows.    *)
C14_Witness ==
    /\ command = "upload"
    /\ main = "exited"
    /\ Len(rows) = 5
    /\ Len(sent[1].calls) = 3
    /\ Len(sent[1].calls[1]) = 2
    /\ Len(sent[1].calls[2]) = 2
    /\ Len(sent[1].calls[3]) = 1
    /\ sent[1].calls[3] = << rows[5] >>

(* The counters of commit_csv / commit_json for target i in the next       *)
(* state: those of its running loop, those the upload command was returned *)
(* or those of the result _upload_tenant has just made of them.            *)
CountersAfter(i) ==
    IF tasks'[i].pc # "done" \/ command = "upload" THEN tasks'[i]
    ELSE results'[Len(results')]

C28_NoRetryAfterResponse ==
    [][ \A i \in 1..Len(sent) :
          /\ i \in Committing =>
                /\ tasks[i].attempt \in 0..(MaxAttempts - 1)
                /\ sent[i].answered = tasks[i].batch - 1
                /\ Len(sent[i].calls) \in { tasks[i].batch - 1, tasks[i].batch }
          /\ sent'[i].answered = sent[i].answered + 1 =>
                LET body == sent'[i].last[1]
                    size == Len(Last(sent'[i].calls))
                IN  /\ tasks[i].attempt + 1 \in 1..MaxAttempts
                    /\ Len(sent'[i].calls) = tasks[i].batch
                    /\ \/ tasks'[i].pc = "done"
                       \/ /\ tasks'[i].pc = "consume"
                          /\ tasks'[i].batch = tasks[i].batch + 1
                          /\ tasks'[i].attempt = 0
                    /\ body.reply # TRUE =>
                          CountersAfter(i).failed = tasks[i].failed + size ]_vars

(* A commit call of the upload command returned at its fifth attempt with  *)
(* a reply that is not true: the batch was counted as failed.              *)
C28_Witness ==
    /\ command = "upload"
    /\ last_call.ended = "returned"
    /\ ~last_call.validate
    /\ last_call.attempts = MaxAttempts
    /\ sent[1].last[1].reply = FALSE
    /\ tasks[1].failed > 0
    /\ sent[1].answered = Len(sent[1].calls)

-----------------------------------------------------------------------------
(* Properties of the token bucket, checked under SpecBucket.               *)

Threads == 1..Len(threads)

(* C15: in every state of a TokenBucket, under any interleaving of         *)
(* concurrent consume calls and any advance of time, the token count is    *)
(* within [0, capacity].                                                   *)
C15_TokensInRange ==
    \A name \in DOMAIN buckets :
        /\ buckets[name].tokens >= 0
        /\ buckets[name].tokens <= buckets[name].capacity

(* A bucket is empty while a thread sleeps for a token of it, after time   *)
(* has passed.                                                             *)
C15_Witness ==
    \E i \in Threads :
        /\ threads[i].pc = "sleep"
        /\ buckets[BucketOf(i)].tokens = 0
        /\ buckets[BucketOf(i)].timestamp > 0

(* C16: a consume(n) that finds t < n tokens after the refill does not     *)
(* return before (n - t) / rate has passed since that observation, nor     *)
(* does it look again before then; right after a full bucket has been      *)
(* drained the next consume(1) returns 1 / rate later at the earliest.     *)
C16_BlocksUntilRefilled ==
    \A i \in Threads :
        /\ ( threads[i].pc = "idle" /\ threads[i].waited ) =>
              (threads[i].returned_at - threads[i].seen_at) * Rate
                  >= threads[i].short
        /\ ( threads[i].pc = "pass" /\ threads[i].waited ) =>
              (now - threads[i].seen_at) * Rate >= threads[i].short
        /\ ( /\ threads[i].pc = "idle"
             /\ threads[i].waited
             /\ threads[i].n = Resolution
             /\ threads[i].taken = buckets[BucketOf(i)].capacity + Resolution
             /\ \A j \in Threads \ { i } : threads[j].calls = 0 ) =>
              threads[i].returned_at * Rate >= Resolution

(* A thread drained its full bucket at time 0 and its next consume(1)      *)
(* returned exactly 1 / rate later.                                        *)
C16_Witness ==
    \E i \in Threads :
        /\ threads[i].pc = "idle"
        /\ threads[i].waited
        /\ threads[i].n = Resolution
        /\ threads[i].seen_at = 0
        /\ threads[i].short = Resolution
        /\ threads[i].taken = buckets[BucketOf(i)].capacity + Resolution
        /\ threads[i].returned_at * Rate = Resolution

(* C18: every target has a TokenBucket of its own: a consume by one        *)
(* target's task never changes another target's token count, so that       *)
(* before any time has passed a target's count is its capacity less what   *)
(* its own task took.  Two tenant entries of one name share one Uploader,  *)
(* hence one bucket.                                                       *)
C18_OwnBucket ==
    now = 0 =>
        \A i \in Threads :
            buckets[BucketOf(i)].tokens =
                buckets[BucketOf(i)].capacity - threads[i].taken

(* C26: consume(0) is a no-op in every state of the bucket, the empty      *)
(* one included: it returns on its first pass without sleeping and takes   *)
(* no token, the count it leaves being what the refill for the time since  *)
(* the last pass gives.                                                    *)
C26_ConsumeZero ==
    [][ \A i \in Threads :
          /\ threads'[i].n = 0 => threads'[i].pc # "sleep"
          /\ ( /\ threads[i].pc = "pass"
               /\ threads[i].n = 0
               /\ threads'[i] # threads[i] ) =>
                 LET b == buckets[BucketOf(i)]
                     refilled == b.tokens + (now - b.timestamp) * Rate
                 IN  /\ threads'[i].pc = "idle"
                     /\ ~threads'[i].waited
                     /\ threads'[i].taken = threads[i].taken
                     /\ threads'[i].returned_at = now
                     /\ buckets'[BucketOf(i)].tokens =
                            IF refilled < b.capacity THEN refilled
                            ELSE b.capacity ]_vars

(* A thread drained its bucket and its consume(0) that followed returned   *)
(* at once, the bucket still empty.                                        *)
C26_Witness ==
    \E i \in Threads :
        /\ threads[i].calls = 2
        /\ threads[i].n = 0
        /\ threads[i].pc = "idle"
        /\ ~threads[i].waited
        /\ threads[i].taken = buckets[BucketOf(i)].capacity
        /\ buckets[BucketOf(i)].tokens = 0
        /\ now = 0

-----------------------------------------------------------------------------
(* Properties of the uploader calls, checked under SpecThrottle.           *)

(* C23: every request attempt sent to a target, the retries included, is   *)
(* preceded by a consume on the target's bucket: the requests sent never   *)
(* outnumber the tokens taken.  The code consumes one token per call, ahead *)
(* of the retried function, so the retries of a call are sent without one. *)
C23_AttemptsThrottled ==
    \A i \in Threads :
        threads[i].requests * Resolution <= threads[i].taken

-----------------------------------------------------------------------------
(* Properties of the authentication headers, checked under SpecClient.     *)

StandardKeys == { "Authorization", "x-xdr-auth-id", "Content-Type" }

AdvancedKeys == StandardKeys \cup { "x-xdr-timestamp", "x-xdr-nonce" }

(* C19: _headers() returns exactly the keys Authorization, x-xdr-auth-id   *)
(* and Content-Type in standard mode, with the raw key as Authorization,   *)
(* and these with x-xdr-timestamp and x-xdr-nonce in advanced mode, where  *)
(* Authorization is the hex SHA-256 digest of key ++ nonce ++ timestamp    *)
(* over the nonce and the timestamp that the same headers carry.           *)
C19_Headers ==
    \A r \in 1..Len(wire) :
        LET h == wire[r].headers
        IN  /\ h["x-xdr-auth-id"] = Text(client.api_key_id)
            /\ h["Content-Type"] = Text(Word("application/json"))
            /\ ~client.advanced =>
                  /\ DOMAIN h = StandardKeys
                  /\ h["Authorization"] = Text(client.api_key)
            /\ client.advanced =>
                  /\ DOMAIN h = AdvancedKeys
                  /\ h["x-xdr-nonce"].kind = "text"
                  /\ h["x-xdr-timestamp"].kind = "text"
                  /\ Len(h["x-xdr-nonce"].of) = NonceLength
                  /\ h["Authorization"] =
                         Sha256Hex(client.api_key \o h["x-xdr-nonce"].of
                                       \o h["x-xdr-timestamp"].of)

(* A request of an advanced-mode client with key "k" is on the wire.       *)
C19_Witness ==
    /\ client # << >>
    /\ client.advanced
    /\ client.api_key = Word("k")
    /\ Len(wire) >= 1
    /\ wire[1].headers["Authorization"].kind = "sha256hex"

(* C20: the headers are computed anew for every request attempt, the       *)
(* retries of one call included: a request carries the timestamp of the    *)
(* time it is sent at and, in advanced mode, a nonce and a signature that  *)
(* no other request carries.                                               *)
C20_HeadersFresh ==
    /\ client # << >> /\ client.advanced => draws = Len(wire)
    /\ \A r \in 1..Len(wire) :
          client.advanced =>
              /\ wire[r].headers["x-xdr-timestamp"] =
                     Text(Timestamp(wire[r].at))
              /\ \A q \in 1..(r - 1) :
                    /\ wire[q].headers["x-xdr-nonce"] #
                           wire[r].headers["x-xdr-nonce"]
                    /\ wire[q].headers["Authorization"] #
                           wire[r].headers["Authorization"]
                    /\ wire[q].headers # wire[r].headers

(* A retry of the same call, sent later than the attempt before it.        *)
C20_Witness ==
    /\ client # << >>
    /\ client.advanced
    /\ Len(wire) >= 2
    /\ wire[1].call = wire[2].call
    /\ wire[2].attempt = 2
    /\ wire[2].at > wire[1].at

-----------------------------------------------------------------------------
(* Properties of the multi-tenant commands, checked under SpecCli.         *)

(* C30: upload-multi and validate-multi run the orchestrator's operation   *)
(* on the loaded rows and exit with code 0 when the aggregate is           *)
(* overall_success, with code 2 when it is not, and with code 1 only when  *)
(* loading or the operation itself raised.  In the code validate_multi     *)
(* calls a method the uploader has not and upload_multi passes a keyword   *)
(* upload_all does not take: both exit with code 1 on every input.         *)
C30_CliExitCodes ==
    ( command \in CliCommands /\ main = "exited" ) =>
        /\ exit_code \in { 0, 1, 2 }
        /\ exit_code = 1 => ( settings = << >> \/ UnknownTenant )
        /\ exit_code = 0 => ( returned # << >> /\ OverallSuccess(Aggregate) )
        /\ exit_code = 2 => ( returned # << >> /\ ~OverallSuccess(Aggregate) )
        /\ ( settings # << >> /\ ~UnknownTenant ) => returned # << >>

=============================================================================
